---------------------------- MODULE Spec2Model ----------------------------
(***************************************************************************)
(* Model of eng_fmt::format_eng (src/src/lib.rs): formatting of an f64 in  *)
(* engineering notation with a given number of significant figures.        *)
(*                                                                         *)
(* A finite real is a decimal [n |-> Int, e |-> Int] of value n * 10^e, so *)
(* log10, floor, ceil, fract, powi and round are computed exactly on       *)
(* integers.  The returned String is a sequence of one-character strings,  *)
(* built digit by digit as the formatting machinery builds it.             *)
(***************************************************************************)
EXTENDS Integers, Sequences, FiniteSets

\* ------------------------------------------------------------------ bounds

\* |n| of the inputs ranges over 0..MaxMant (plus the test suite's values)
MaxMant == 1000
\* the decimal exponent e of the inputs ranges over -MaxNegExp..MaxPosExp
MaxNegExp == 7
MaxPosExp == 4
\* Some(sf) ranges over 0..MaxSf
MaxSf == 5

\* `sf.unwrap_or(3)`
DefaultSf == 3

\* ----------------------------------------------------------- arithmetic

Abs(a) == IF a < 0 THEN -a ELSE a

Max(a, b) == IF a >= b THEN a ELSE b

RECURSIVE Pow10(_)
\* 10^k for k >= 0
Pow10(k) == IF k <= 0 THEN 1 ELSE 10 * Pow10(k - 1)

\* Rust's `%` on i32: the remainder has the sign of the dividend
Rem(a, b) == IF a >= 0 THEN a % b ELSE -((-a) % b)

RECURSIVE NumDigits(_)
\* number of decimal digits of a natural number (1 for 0)
NumDigits(n) == IF n < 10 THEN 1 ELSE 1 + NumDigits(n \div 10)

Dec(n, e) == [n |-> n, e |-> e]

\* `x.abs()`
AbsDec(x) == Dec(Abs(x.n), x.e)

\* `-x`
NegDec(x) == Dec(-x.n, x.e)

\* --------------------------------------- abs_log10 = x.abs().log10()
\* log10(|n| * 10^e) = log10(|n|) + e, read through the operations the code
\* applies to it (x.n # 0).

\* `abs_log10.floor()`
Log10Floor(x) == NumDigits(Abs(x.n)) - 1 + x.e

\* `abs_log10.fract() == 0.`: |x| is an exact power of ten
Log10FractIsZero(x) == Abs(x.n) = Pow10(NumDigits(Abs(x.n)) - 1)

\* `abs_log10.ceil()`
Log10Ceil(x) == IF Log10FractIsZero(x) THEN Log10Floor(x) ELSE Log10Floor(x) + 1

\* `abs_log10 >= 0.`
Log10Ge0(x) == Log10Floor(x) >= 0

\* `abs_log10 > 0.`
Log10Gt0(x) == Log10Ceil(x) > 0

\* `abs_log10 == 0.`
Log10Eq0(x) == Log10Floor(x) = 0 /\ Log10FractIsZero(x)

\* `abs_log10 as i32`, `abs_log10.abs() as u32`: the cast truncates toward zero
Log10Trunc(x) == IF Log10Ge0(x) THEN Log10Floor(x) ELSE Log10Ceil(x)

\* --------------------------------------------------------- format_eng

\* `sf.unwrap_or(3)`
UnwrapSf(sfOpt) == IF sfOpt.some THEN sfOpt.v ELSE DefaultSf

\* mutant: the assertion is off by one and lets sf = 0 through
SfValidFromZero(sf) == sf >= 0

\* the condition of `assert!(sf >= 1, ...)`
SfValid(sf) == sf >= 1

\* `let exp_sci: i32 = if abs_log10 >= 0. { floor } else { ceil } as i32`
ExpSci(x) == IF Log10Ge0(x) THEN Log10Floor(x) ELSE Log10Ceil(x)

\* mutant: the branch for magnitudes below 1 reuses floor() of the first branch
ExpEngFloorCopied(x) ==
    IF Log10Ge0(x)
    THEN ExpSci(x) - Rem(Log10Floor(x), 3)
    ELSE IF Log10FractIsZero(x) /\ Abs(Log10Trunc(x)) % 3 = 0
    THEN ExpSci(x) - Rem(Log10Ceil(x), 3)
    ELSE ExpSci(x) - Rem(Log10Floor(x), 3) - 3

\* mutant: no separate branch for exact powers of 1000 below 1
ExpEngNoExactBranch(x) ==
    IF Log10Ge0(x)
    THEN ExpSci(x) - Rem(Log10Floor(x), 3)
    ELSE ExpSci(x) - Rem(Log10Ceil(x), 3) - 3

\* engineering notation exponent
ExpEng(x) ==
    IF Log10Ge0(x)
    THEN ExpSci(x) - Rem(Log10Floor(x), 3)
    ELSE IF Log10FractIsZero(x) /\ Abs(Log10Trunc(x)) % 3 = 0
    THEN ExpSci(x) - Rem(Log10Ceil(x), 3)
    ELSE ExpSci(x) - Rem(Log10Ceil(x), 3) - 3

\* `match exp_eng { _ if exp_eng.abs() <= 2 => x, _ => x / 10_f64.powi(exp_eng) }`
XBase(x, ee) == IF Abs(ee) <= 2 THEN x ELSE Dec(x.n, x.e - ee)

\* mutant: the `% 3` is dropped from the branch for magnitudes above 1
NLeftOfDecNoRem(x) ==
    IF Log10Gt0(x) THEN Log10Floor(x) + 1
    ELSE IF Log10Eq0(x) THEN 1
    ELSE IF Log10FractIsZero(x) THEN 3 - Rem(-(Log10Trunc(x) + 1), 3)
    ELSE 3 - Rem(-Log10Ceil(x), 3)

\* number of digits left of decimal after formatting for engineering notation
NLeftOfDec(x) ==
    IF Log10Gt0(x) THEN Rem(Log10Floor(x), 3) + 1
    ELSE IF Log10Eq0(x) THEN 1
    ELSE IF Log10FractIsZero(x) THEN 3 - Rem(-(Log10Trunc(x) + 1), 3)
    ELSE 3 - Rem(-Log10Ceil(x), 3)

\* mutant: truncation toward zero instead of rounding
RoundTruncates(d) ==
    IF d.e >= 0 THEN d.n * Pow10(d.e)
    ELSE LET q == Abs(d.n) \div Pow10(-d.e)
         IN  IF d.n < 0 THEN -q ELSE q

\* mutant: ties go up (toward +infinity) instead of away from zero
RoundHalfUp(d) ==
    IF d.e >= 0 THEN d.n * Pow10(d.e)
    ELSE (2 * d.n + Pow10(-d.e)) \div (2 * Pow10(-d.e))

\* `f64::round`: nearest integer, ties away from zero
RoundF64(d) ==
    IF d.e >= 0 THEN d.n * Pow10(d.e)
    ELSE LET p == Pow10(-d.e)
             q == Abs(d.n) \div p
             r == Abs(d.n) % p
             m == IF 2 * r >= p THEN q + 1 ELSE q
         IN  IF d.n < 0 THEN -m ELSE m

\* mutant: the scale-round-rescale is skipped when exp is negative
RoundXBaseNonNegOnly(xb, exp) ==
    IF exp < 0 THEN xb ELSE Dec(RoundF64(Dec(xb.n, xb.e + exp)), -exp)

\* `x_base = (x_base * 10_f64.powi(exp)).round() * 10_f64.powi(-exp)`
RoundXBase(xb, exp) == Dec(RoundF64(Dec(xb.n, xb.e + exp)), -exp)

\* ---------------------------------------------------- string formatting

DigitChars == <<"0", "1", "2", "3", "4", "5", "6", "7", "8", "9">>

RECURSIVE PadDigits(_, _)
\* the w low decimal digits of v, most significant first
PadDigits(v, w) ==
    IF w <= 0 THEN <<>>
    ELSE PadDigits(v \div 10, w - 1) \o <<DigitChars[(v % 10) + 1]>>

\* `{}` of a non-negative integer
FormatNat(v) == PadDigits(v, NumDigits(v))

\* `{}` of an i32
FormatI32(i) == IF i < 0 THEN <<"-">> \o FormatNat(-i) ELSE FormatNat(i)

\* |d| in units of 10^-p, to nearest with ties to even (fmt's exact rounding)
ScaledToPrecision(d, p) ==
    IF d.e + p >= 0 THEN Abs(d.n) * Pow10(d.e + p)
    ELSE LET u == Pow10(-(d.e + p))
             q == Abs(d.n) \div u
             r == Abs(d.n) % u
         IN  IF 2 * r > u \/ (2 * r = u /\ q % 2 = 1) THEN q + 1 ELSE q

\* `{d:.*}` with precision p: sign, integer digits, and a point with p
\* fractional digits when p > 0
FormatFixed(d, p) ==
    LET m == ScaledToPrecision(d, p)
    IN  (IF d.n < 0 THEN <<"-">> ELSE <<>>)
        \o FormatNat(m \div Pow10(p))
        \o (IF p > 0 THEN <<".">> \o PadDigits(m % Pow10(p), p) ELSE <<>>)

\* mutant: sf decimals instead of sf - 1
ZeroResultSfDecimals(x, sf) == FormatFixed(x, sf)

\* `return format!("{x:.*}", sf - 1)`
ZeroResult(x, sf) == FormatFixed(x, sf - 1)

\* the final `match exp_eng`: no suffix for 0..=2, otherwise e{exp_eng}
Render(xb, n_dec, ee) ==
    IF ee >= 0 /\ ee <= 2
    THEN FormatFixed(xb, Max(n_dec, 0))
    ELSE FormatFixed(xb, Max(n_dec, 0)) \o <<"e">> \o FormatI32(ee)

\* message of `assert!(sf >= 1, ...)`
SfPanicMsg == "format_eng arg sf must be at least 1."

\* message of `assert!(n_left_of_dec <= 3, ...)`
NLeftPanicMsg == "n_left_of_dec exceeds 3"

\* ------------------------------------------------------------------ state

VARIABLES
    x,              \* argument `x`
    sf_arg,         \* argument `sf: Option<usize>`
    pc,             \* "start", "done" (a String was returned) or "panicked"
    out,            \* the returned String
    panic_msg,      \* the panic message, "" when none
    exp_sci,        \* locals of format_eng, 0 until assigned
    exp_eng,
    n_left_of_dec,
    n_dec,
    x_base          \* `x_base` after rounding

vars == <<x, sf_arg, pc, out, panic_msg, exp_sci, exp_eng, n_left_of_dec, n_dec, x_base>>

NoneSf == [some |-> FALSE, v |-> 0]

SomeSf(k) == [some |-> TRUE, v |-> k]

\* mantissas of the values the test suite formats (pi, 2*pi, 33.333, ...)
TestMantissas == {314159, 628319, 33333, 66666, 99996, 9996, 9995, 996, 999, 6022}

Mantissas == (0..MaxMant) \cup TestMantissas

\* finite f64 arguments; zero is +0.0
Inputs ==
    {Dec(s * m, e) : s \in {-1, 1}, m \in Mantissas \ {0}, e \in (-MaxNegExp)..MaxPosExp}
        \cup {Dec(0, 0)}

SfArgs == {NoneSf} \cup {SomeSf(k) : k \in 0..MaxSf}

Init ==
    /\ x \in Inputs
    /\ sf_arg \in SfArgs
    /\ pc = "start"
    /\ out = <<>>
    /\ panic_msg = ""
    /\ exp_sci = 0
    /\ exp_eng = 0
    /\ n_left_of_dec = 0
    /\ n_dec = 0
    /\ x_base = Dec(0, 0)

\* `assert!(sf >= 1, ...)` fails
AssertSfFails ==
    /\ pc = "start"
    /\ ~SfValid(UnwrapSf(sf_arg))
    /\ pc' = "panicked"
    /\ panic_msg' = SfPanicMsg
    /\ UNCHANGED <<x, sf_arg, out, exp_sci, exp_eng, n_left_of_dec, n_dec, x_base>>

\* `if x == 0. { return format!("{x:.*}", sf - 1); }`
ReturnZero ==
    /\ pc = "start"
    /\ SfValid(UnwrapSf(sf_arg))
    /\ x.n = 0
    /\ out' = ZeroResult(x, UnwrapSf(sf_arg))
    /\ pc' = "done"
    /\ UNCHANGED <<x, sf_arg, panic_msg, exp_sci, exp_eng, n_left_of_dec, n_dec, x_base>>

\* the rest of format_eng, for x # 0
FormatNonzero ==
    /\ pc = "start"
    /\ SfValid(UnwrapSf(sf_arg))
    /\ x.n # 0
    /\ LET sf == UnwrapSf(sf_arg)
           ee == ExpEng(x)
           nl == NLeftOfDec(x)
           exp == sf - nl
           xb == RoundXBase(XBase(x, ee), exp)
       IN  /\ exp_sci' = ExpSci(x)
           /\ exp_eng' = ee
           /\ n_left_of_dec' = nl
           /\ IF nl <= 3
              THEN /\ n_dec' = sf - nl
                   /\ x_base' = xb
                   /\ out' = Render(xb, sf - nl, ee)
                   /\ pc' = "done"
                   /\ UNCHANGED panic_msg
              ELSE /\ pc' = "panicked"
                   /\ panic_msg' = NLeftPanicMsg
                   /\ UNCHANGED <<n_dec, x_base, out>>
    /\ UNCHANGED <<x, sf_arg>>

Next == AssertSfFails \/ ReturnZero \/ FormatNonzero

Spec == Init /\ [][Next]_vars


\* ------------------------------------------- reading the output back

Min(a, b) == IF a <= b THEN a ELSE b

Positions(s, c) == {i \in 1..Len(s) : s[i] = c}

HasExp(s) == Positions(s, "e") # {}

EPos(s) == CHOOSE i \in Positions(s, "e") : TRUE

\* the part before any 'e' suffix
MantissaStr(s) == IF HasExp(s) THEN SubSeq(s, 1, EPos(s) - 1) ELSE s

\* the part after the 'e'
ExpStr(s) == IF HasExp(s) THEN SubSeq(s, EPos(s) + 1, Len(s)) ELSE <<>>

IsNegStr(s) == Len(s) > 0 /\ s[1] = "-"

Unsigned(s) == IF IsNegStr(s) THEN Tail(s) ELSE s

HasPoint(s) == Positions(s, ".") # {}

PointPos(s) == CHOOSE i \in Positions(s, ".") : TRUE

\* digits left of the decimal point of a mantissa string, sign ignored
IntDigits(m) ==
    IF HasPoint(Unsigned(m))
    THEN SubSeq(Unsigned(m), 1, PointPos(Unsigned(m)) - 1)
    ELSE Unsigned(m)

\* digits right of the decimal point of a mantissa string
FracDigits(m) ==
    IF HasPoint(Unsigned(m))
    THEN SubSeq(Unsigned(m), PointPos(Unsigned(m)) + 1, Len(Unsigned(m)))
    ELSE <<>>

IsDigitStr(s) == \A i \in 1..Len(s) : \E d \in 0..9 : DigitChars[d + 1] = s[i]

DigitVal(c) == CHOOSE d \in 0..9 : DigitChars[d + 1] = c

RECURSIVE ParseNat(_)
ParseNat(s) ==
    IF Len(s) = 0 THEN 0
    ELSE 10 * ParseNat(SubSeq(s, 1, Len(s) - 1)) + DigitVal(s[Len(s)])

ParseInt(s) == IF IsNegStr(s) THEN -ParseNat(Tail(s)) ELSE ParseNat(s)

\* the mantissa of an output, as a decimal
ParsedMantissa(s) ==
    LET m == MantissaStr(s)
        v == ParseNat(IntDigits(m) \o FracDigits(m))
    IN  Dec(IF IsNegStr(m) THEN -v ELSE v, -Len(FracDigits(m)))

\* the exponent of an output, 0 when no 'e' suffix is printed
ParsedExp(s) == IF HasExp(s) THEN ParseInt(ExpStr(s)) ELSE 0

\* mantissa * 10^exponent
Reconstructed(s) == Dec(ParsedMantissa(s).n, ParsedMantissa(s).e + ParsedExp(s))

\* d in units of 10^m, for m <= d.e
ScaleTo(d, m) == d.n * Pow10(d.e - m)

\* y is a multiple of 10^u nearest to v
IsNearestMultiple(y, v, u) ==
    LET m == Min(Min(y.e, v.e), u)
        Y == ScaleTo(y, m)
        V == ScaleTo(v, m)
        U == Pow10(u - m)
    IN  /\ Abs(Y) % U = 0
        /\ 2 * Abs(Y - V) <= U

\* y is v rounded to sf significant figures, ties away from zero
IsRoundedToSf(y, v, sf) ==
    LET u == Log10Floor(v) - sf + 1
        m == Min(Min(y.e, v.e), u)
        Y == ScaleTo(y, m)
        V == ScaleTo(v, m)
        U == Pow10(u - m)
    IN  /\ IsNearestMultiple(y, v, u)
        /\ (2 * Abs(Y - V) = U => Abs(Y) > Abs(V))

Zeros(k) == [i \in 1..k |-> "0"]

Returned == pc = "done"

ReturnedNonzero == pc = "done" /\ x.n # 0

Sf == UnwrapSf(sf_arg)

\* ----------------------------------------------------------------- claims

C2_ExpMultipleOf3 ==
    ReturnedNonzero =>
        /\ exp_eng % 3 = 0
        /\ HasExp(out) => ParsedExp(out) % 3 = 0

\* pi/10, in the branch for magnitudes below 1 off an exact power of 1000
C2_Witness ==
    /\ Returned
    /\ x = Dec(314159, -6)
    /\ sf_arg = NoneSf
    /\ ~Log10Ge0(x)
    /\ ~Log10FractIsZero(x)
    /\ out = <<"3", "1", "4", "e", "-", "3">>

\* C3: the printed mantissa has between 1 and 3 digits left of the decimal
\* point, also when rounding carries up from 999.x.
C3_MantissaIntDigits ==
    Returned => Len(IntDigits(MantissaStr(out))) \in 1..3

\* rounding x_base carried it up to the next power of ten
CarryHappened ==
    /\ ReturnedNonzero
    /\ ScaleTo(AbsDec(x_base), Min(x_base.e, 0)) >= Pow10(n_left_of_dec - Min(x_base.e, 0))

\* C4: when rounding carries the mantissa up to the next power of ten the
\* mantissa still shows exactly sf digits (counted where a decimal point is
\* printed, so that every digit shown is significant); 9.9996 at sf = 3
\* gives "10.0".
C4_CarryKeepsDigitCount ==
    /\ (CarryHappened /\ Sf > n_left_of_dec) =>
           Len(IntDigits(MantissaStr(out))) + Len(FracDigits(MantissaStr(out))) = Sf
    /\ (Returned /\ x = Dec(99996, -4) /\ Sf = 3) => out = <<"1", "0", ".", "0">>

\* C5 as stated: format_eng(0, sf) is "0", a decimal point and sf - 1 zeros
\* for every sf >= 1, sf = 1 included.
C5_ZeroAlwaysPoint ==
    (Returned /\ x.n = 0) => out = <<"0", ".">> \o Zeros(Sf - 1)

\* C5 amended: format_eng(0, sf) is "0." and sf - 1 zeros for sf >= 2 and
\* the bare "0", without a decimal point, for sf = 1; never an exponent.
C5_Zero ==
    (Returned /\ x.n = 0) =>
        /\ out = (IF Sf = 1 THEN <<"0">> ELSE <<"0", ".">> \o Zeros(Sf - 1))
        /\ ~HasExp(out)

C5_Witness ==
    /\ Returned
    /\ x.n = 0
    /\ sf_arg = SomeSf(1)
    /\ out = <<"0">>

\* C6: for x > 0, format_eng(-x, sf) is '-' followed by format_eng(x, sf),
\* with the same exponent, integer digit count, decimals and rounded digits.
C6_SignSymmetry ==
    (ReturnedNonzero /\ x.n < 0) =>
        LET px == NegDec(x)
            ee == ExpEng(px)
            nl == NLeftOfDec(px)
            xb == RoundXBase(XBase(px, ee), Sf - nl)
        IN  /\ out = <<"-">> \o Render(xb, Sf - nl, ee)
            /\ exp_eng = ee
            /\ n_left_of_dec = nl
            /\ n_dec = Sf - nl
            /\ x_base = NegDec(xb)

\* -2*pi at sf = 2 is "-6.3"
C6_Witness ==
    /\ Returned
    /\ x = Dec(-628319, -5)
    /\ sf_arg = SomeSf(2)
    /\ out = <<"-", "6", ".", "3">>

\* C7: with sf < 1 the call fails with the message that sf must be at least
\* 1, for every x, zero included; no string is returned and nothing else is
\* computed.
C7_InvalidSf ==
    (pc # "start" /\ Sf < 1) =>
        /\ pc = "panicked"
        /\ panic_msg = SfPanicMsg
        /\ out = <<>>
        /\ exp_sci = 0 /\ exp_eng = 0 /\ n_left_of_dec = 0 /\ n_dec = 0

C7_Witness ==
    /\ pc = "panicked"
    /\ x.n = 0
    /\ sf_arg = SomeSf(0)
    /\ panic_msg = SfPanicMsg

\* C8: with sf >= 1 the call returns a string and never fails;
\* n_left_of_dec is between 1 and 3 on every path.
C8_NoFailure ==
    (pc # "start" /\ Sf >= 1) =>
        /\ pc = "done"
        /\ panic_msg = ""
        /\ Len(out) >= 1
        /\ x.n # 0 => n_left_of_dec \in 1..3

\* -0.01 at sf = 1, through the branch for exact powers of ten below 1
C8_Witness ==
    /\ Returned
    /\ x = Dec(-1, -2)
    /\ sf_arg = SomeSf(1)
    /\ n_left_of_dec = 2
    /\ out = <<"-", "1", "0", "e", "-", "3">>

\* C9: exp_eng is the largest multiple of 3 that is <= floor(log10(|x|)),
\* exact powers of ten below 1 included.
C9_ExpEngValue ==
    ReturnedNonzero => exp_eng = 3 * (Log10Floor(x) \div 3)

\* 1e-4 gives -6
C9_Witness ==
    /\ Returned
    /\ x = Dec(1, -4)
    /\ sf_arg = NoneSf
    /\ exp_eng = -6
    /\ out = <<"1", "0", "0", "e", "-", "6">>

\* C10: with sf < n_left the mantissa is printed without a decimal point,
\* rounded to the nearest multiple of 10^(n_left - sf), only its leading sf
\* digits nonzero; with sf >= n_left it has exactly sf - n_left fractional
\* digits.
C10_FewerSfThanIntDigits ==
    ReturnedNonzero =>
        LET m == MantissaStr(out)
            nl == n_left_of_dec
        IN  IF Sf < nl
            THEN /\ ~HasPoint(m)
                 /\ FracDigits(m) = <<>>
                 /\ IsNearestMultiple(ParsedMantissa(out), XBase(x, exp_eng), nl - Sf)
                 /\ \A i \in (Sf + 1)..Len(IntDigits(m)) : IntDigits(m)[i] = "0"
            ELSE /\ Len(FracDigits(m)) = Sf - nl
                 /\ HasPoint(m) <=> Sf > nl

\* 2*pi*1e5 at sf = 1 is "600e3"
C10_Witness ==
    /\ Returned
    /\ x = Dec(628319, 0)
    /\ sf_arg = SomeSf(1)
    /\ n_left_of_dec = 3
    /\ out = <<"6", "0", "0", "e", "3">>

=============================================================================
